---- MODULE Spec2Model ----
(***************************************************************************)
(* A model of the composable game object of Directus3D (GameObject.cpp):   *)
(* the object's fields, its keyed component collection, the add/get/has/   *)
(* remove operations by capability type, the per-frame update fan-out and  *)
(* the save/load protocol over the sequential Serializer stream.           *)
(***************************************************************************)
EXTENDS Integers, Sequences, FiniteSets, TLC

(***************************************************************************)
(* Bounds of the exploration.                                              *)
(***************************************************************************)
\* how many of the twelve capability types the exploration instantiates
NumTypes == 2
\* how many component instances "new Type" may allocate in one behaviour
MaxInst == 3
\* how many GameObjects may be constructed in one behaviour
MaxObjects == 2
\* component field values range over 0..MaxData
MaxData == 1

(***************************************************************************)
(* Pointers.  A pointer is an integer: 0 is nullptr, -1 stands for the     *)
(* indeterminate value of a member that was never assigned, a positive     *)
(* number is the address of an allocated object.                           *)
(***************************************************************************)
NullPtr == 0
Indeterminate == 0 - 1

(***************************************************************************)
(* The capability types, in the order of the explicit instantiations.      *)
(***************************************************************************)
ComponentTypes ==
    << "Transform", "Mesh", "MeshRenderer", "Light", "Camera", "Skybox",
       "RigidBody", "Collider", "MeshCollider", "Hinge", "Script",
       "LineRenderer" >>

Types == { ComponentTypes[i] : i \in 1..NumTypes }

\* std::map<string, ...> iterates its keys in ascending (byte-wise) order; the
\* strings the model uses as keys, in that order
KeyOrder ==
    << "Camera", "Collider", "Hinge", "Light", "LineRenderer", "Mesh",
       "MeshCollider", "MeshRenderer", "RigidBody", "Script", "Skybox",
       "Terrain", "Transform" >>

KeyRank(k) == CHOOSE i \in 1..Len(KeyOrder) : KeyOrder[i] = k

KeyLess(a, b) == KeyRank(a) < KeyRank(b)

\* dynamic_cast<Type*>(component): every capability class derives directly
\* from IComponent, so the cast succeeds exactly on the component's own class
DynamicCast(dyn, Type) == dyn = Type

\* typeid(Type).name() of the MSVC build: the words "class" and the class name
TypeIdName(Type) == << "class", Type >>

\* typeStr.substr(typeStr.find_first_of(" \t") + 1): drops the first word; a
\* name without whitespace is kept whole (npos + 1 = 0)
TypeStr(Type) ==
    LET name == TypeIdName(Type)
    IN  IF Len(name) >= 2 THEN name[2] ELSE name[1]

(***************************************************************************)
(* Collaborators.  Initialize() hands the object eight handles; before it  *)
(* runs the eight members hold indeterminate values.                       *)
(***************************************************************************)
HandleNames ==
    { "d3d11Device", "scene", "meshPool", "materialPool", "texturePool",
      "shaderPool", "physics", "scriptEngine" }

UnsetHandles == [ h \in HandleNames |-> Indeterminate ]

\* the engine's collaborators, one address each
EngineHandles == [ h \in HandleNames |-> 1 ]

(***************************************************************************)
(* The component collection: std::map<string, IComponent*>, kept as the    *)
(* sequence of its entries in ascending key order.  An entry carries the   *)
(* key and the component it points to: the address (inst), the dynamic     *)
(* class (type), the component's own persisted field (data), the injected  *)
(* references and the number of Initialize() calls it has received.        *)
(***************************************************************************)
Event(e, inst, arg) == [ e |-> e, inst |-> inst, arg |-> arg ]

MapHas(m, key) == \E i \in 1..Len(m) : m[i].key = key

MapIndex(m, key) == CHOOSE i \in 1..Len(m) : m[i].key = key

\* an insert that keeps the entries in the order of their insertion
MapInsertAppend(m, key, c) ==
    IF MapHas(m, key) THEN m ELSE Append(m, c)

\* m.insert(pair(key, c)): no effect when the key is already present
MapInsert(m, key, c) ==
    IF MapHas(m, key) THEN m
    ELSE LET before == SelectSeq(m, LAMBDA x : KeyLess(x.key, key))
             after  == SelectSeq(m, LAMBDA x : KeyLess(key, x.key))
         IN  before \o << c >> \o after

\* m.erase(it) for the iterator at position i
MapErase(m, i) ==
    [ j \in 1..(Len(m) - 1) |-> IF j < i THEN m[j] ELSE m[j + 1] ]

\* new Type: a default-constructed component at a fresh address
NewComponent(key, Type, addr) ==
    [ key |-> key, inst |-> addr, type |-> Type, data |-> 0,
      g_gameObject |-> Indeterminate, g_transform |-> Indeterminate,
      g_handles |-> UnsetHandles, inits |-> 0 ]

(***************************************************************************)
(* The operations of GameObject as functions of the object o.  Besides the *)
(* members, o carries the heap (nextInst, destroyed), the log of the calls *)
(* the running operation has made into its collaborators, and ub: whether  *)
(* the operation has called through an indeterminate pointer.              *)
(***************************************************************************)
GetTransform(o) == o.m_transform

\* index of the first entry whose component casts to Type, 0 when none does
FirstMatch(m, Type) ==
    IF \E i \in 1..Len(m) : DynamicCast(m[i].type, Type)
    THEN CHOOSE i \in 1..Len(m) :
            /\ DynamicCast(m[i].type, Type)
            /\ \A j \in 1..(i - 1) : ~DynamicCast(m[j].type, Type)
    ELSE 0

\* GetComponent that returns the first component whatever its class
GetComponentAny(o, Type) ==
    IF Len(o.m_components) = 0 THEN NullPtr ELSE o.m_components[1].inst

GetComponent(o, Type) ==
    LET i == FirstMatch(o.m_components, Type)
    IN  IF i = 0 THEN NullPtr ELSE o.m_components[i].inst

HasComponent(o, Type) ==
    IF GetComponent(o, Type) = NullPtr THEN FALSE ELSE TRUE

\* m_scene->MakeDirty()
MakeDirty(o) ==
    [ o EXCEPT !.log = Append(@, Event("MakeDirty", NullPtr, o.m_handles.scene)),
               !.ub  = @ \/ o.m_handles.scene = Indeterminate ]

\* new Type pushed into the collection whatever it holds, duplicates allowed
AddComponentUnchecked(o, Type) ==
    LET typeStr == TypeStr(Type)
        c  == [ NewComponent(typeStr, Type, o.nextInst) EXCEPT
                  !.g_gameObject = o.self, !.g_transform = GetTransform(o),
                  !.g_handles = o.m_handles, !.inits = 1 ]
        o1 == [ o EXCEPT
                  !.m_components = Append(@, c),
                  !.nextInst     = @ + 1,
                  !.log          = @ \o << Event("new", o.nextInst, NullPtr),
                                           Event("inject", o.nextInst, GetTransform(o)),
                                           Event("Initialize", o.nextInst, NullPtr) >> ]
    IN  [ o |-> MakeDirty(o1), ret |-> o.nextInst ]

\* AddComponent that marks the scene dirty also when the component exists
AddComponentDirtyAlways(o, Type) ==
    IF HasComponent(o, Type)
    THEN [ o |-> MakeDirty(o), ret |-> GetComponent(o, Type) ]
    ELSE LET typeStr == TypeStr(Type)
             c  == [ NewComponent(typeStr, Type, o.nextInst) EXCEPT
                       !.g_gameObject = o.self, !.g_transform = GetTransform(o),
                       !.g_handles = o.m_handles, !.inits = 1 ]
             o1 == [ o EXCEPT
                       !.m_components = MapInsert(@, typeStr, c),
                       !.nextInst     = @ + 1,
                       !.log          = @ \o << Event("new", o.nextInst, NullPtr),
                                                Event("inject", o.nextInst, GetTransform(o)),
                                                Event("Initialize", o.nextInst, NullPtr) >> ]
         IN  [ o |-> MakeDirty(o1), ret |-> o.nextInst ]

\* AddComponent that runs Initialize() again on a component that exists
AddComponentReinit(o, Type) ==
    IF HasComponent(o, Type)
    THEN LET i == FirstMatch(o.m_components, Type)
         IN  [ o |-> [ o EXCEPT
                         !.m_components[i].inits = @ + 1,
                         !.log = Append(@, Event("Initialize",
                                                 o.m_components[i].inst, NullPtr)) ],
               ret |-> GetComponent(o, Type) ]
    ELSE LET typeStr == TypeStr(Type)
             c  == [ NewComponent(typeStr, Type, o.nextInst) EXCEPT
                       !.g_gameObject = o.self, !.g_transform = GetTransform(o),
                       !.g_handles = o.m_handles, !.inits = 1 ]
             o1 == [ o EXCEPT
                       !.m_components = MapInsert(@, typeStr, c),
                       !.nextInst     = @ + 1,
                       !.log          = @ \o << Event("new", o.nextInst, NullPtr),
                                                Event("inject", o.nextInst, GetTransform(o)),
                                                Event("Initialize", o.nextInst, NullPtr) >> ]
         IN  [ o |-> MakeDirty(o1), ret |-> o.nextInst ]

AddComponent(o, Type) ==
    IF HasComponent(o, Type)
    THEN [ o |-> o, ret |-> GetComponent(o, Type) ]
    ELSE LET typeStr  == TypeStr(Type)
             inserted == MapInsert(o.m_components, typeStr,
                                   NewComponent(typeStr, Type, o.nextInst))
             i        == MapIndex(inserted, typeStr)
             injected == [ inserted EXCEPT
                             ![i].g_gameObject = o.self,
                             ![i].g_transform  = GetTransform(o),
                             ![i].g_handles    = o.m_handles,
                             ![i].inits        = @ + 1 ]
             addr     == injected[i].inst
             o1       == [ o EXCEPT
                             !.m_components = injected,
                             !.nextInst     = @ + 1,
                             !.log          = @ \o << Event("new", o.nextInst, NullPtr),
                                                      Event("inject", addr, GetTransform(o)),
                                                      Event("Initialize", addr, NullPtr) >> ]
             o2       == MakeDirty(o1)
         IN  [ o |-> o2, ret |-> GetComponent(o2, Type) ]

\* RemoveComponent that deletes the component and keeps its entry
RemoveComponentKeepEntry(o, Type) ==
    LET i == FirstMatch(o.m_components, Type)
    IN  IF i = 0 THEN o
        ELSE MakeDirty([ o EXCEPT
                           !.destroyed = @ \cup { o.m_components[i].inst },
                           !.log       = Append(@, Event("delete", o.m_components[i].inst, NullPtr)) ])

RemoveComponent(o, Type) ==
    LET i == FirstMatch(o.m_components, Type)
    IN  IF i = 0 THEN o
        ELSE MakeDirty([ o EXCEPT
                           !.destroyed    = @ \cup { o.m_components[i].inst },
                           !.log          = Append(@, Event("delete", o.m_components[i].inst, NullPtr)),
                           !.m_components = MapErase(@, i) ])

\* Update() without the test of the active flag
UpdateAlways(o) ==
    [ o EXCEPT !.log = @ \o [ i \in 1..Len(o.m_components) |->
                                Event("Update", o.m_components[i].inst, NullPtr) ] ]

\* Update(): nothing when inactive, else every component's Update() in map order
Update(o) ==
    IF ~o.m_isActive THEN o
    ELSE [ o EXCEPT !.log = @ \o [ i \in 1..Len(o.m_components) |->
                                     Event("Update", o.m_components[i].inst, NullPtr) ] ]

(***************************************************************************)
(* The Serializer: one sequential stream of fields.  A field is a string,  *)
(* a boolean or an integer; a read of the wrong kind of field, or past the *)
(* end of the stream, yields a garbage value and still consumes one field. *)
(***************************************************************************)
STR(v)  == [ k |-> "str",  s |-> v,  n |-> 0 ]
BOOL(b) == [ k |-> "bool", s |-> "", n |-> IF b THEN 1 ELSE 0 ]
INT(i)  == [ k |-> "int",  s |-> "", n |-> i ]

GarbageStr == "?"

LoadSTR(in, pos) ==
    IF pos <= Len(in) /\ in[pos].k = "str" THEN in[pos].s ELSE GarbageStr

LoadBool(in, pos) ==
    IF pos <= Len(in) /\ in[pos].k = "bool" THEN in[pos].n = 1 ELSE FALSE

LoadInt(in, pos) ==
    IF pos <= Len(in) /\ in[pos].k = "int" THEN in[pos].n ELSE 0

\* IComponent::Save() / Load(): the component's fields, in one fixed order
ComponentSave(c) == << INT(c.data) >>

ComponentLoad(c, in, pos) == [ c EXCEPT !.data = LoadInt(in, pos) ]

ComponentFields == 1

RECURSIVE SaveComponents(_, _)
SaveComponents(m, i) ==
    IF i > Len(m) THEN << >>
    ELSE << STR(m[i].key) >> \o ComponentSave(m[i]) \o SaveComponents(m, i + 1)

\* GameObject::Save(): the fields Save() appends to the stream
Save(o) ==
    << STR(o.m_ID), STR(o.m_name), BOOL(o.m_isActive),
       BOOL(o.m_hierarchyVisibility), INT(Len(o.m_components)) >>
    \o SaveComponents(o.m_components, 1)

\* the chain of "if (typeStr == ...) AddComponent<...>()->Load();"
DispatchTable ==
    << << "Transform", "Transform" >>, << "Mesh", "Mesh" >>,
       << "MeshRenderer", "MeshRenderer" >>, << "Light", "Light" >>,
       << "Camera", "Camera" >>, << "Skybox", "Skybox" >>,
       << "RigidBody", "RigidBody" >>, << "Collider", "Collider" >>,
       << "MeshCollider", "MeshCollider" >>, << "Hinge", "Hinge" >>,
       << "Script", "Script" >>, << "LineRenderer", "LineRenderer" >> >>

\* the result is the object and the read position after the call
LoadCompFromTypeStr(o, typeStr, in, pos) ==
    LET rows == { r \in 1..Len(DispatchTable) : DispatchTable[r][1] = typeStr }
    IN  IF rows = {} THEN [ o |-> o, pos |-> pos ]
        ELSE LET Type == DispatchTable[CHOOSE r \in rows : TRUE][2]
                 a    == AddComponent(o, Type)
                 i    == FirstMatch(a.o.m_components, Type)
                 o1   == [ a.o EXCEPT
                             !.m_components[i] = ComponentLoad(@, in, pos),
                             !.log = Append(@, Event("Load", a.ret, NullPtr)) ]
             IN  [ o |-> o1, pos |-> pos + ComponentFields ]

RECURSIVE LoadComponents(_, _, _, _)
LoadComponents(o, in, pos, n) ==
    IF n <= 0 THEN o
    ELSE LET typeStr == LoadSTR(in, pos)
             r       == LoadCompFromTypeStr(o, typeStr, in, pos + 1)
         IN  LoadComponents(r.o, in, r.pos, n - 1)

\* GameObject::Load() reading the stream in from its first field
Load(o, in) ==
    LET o1 == [ o EXCEPT !.m_ID                  = LoadSTR(in, 1),
                         !.m_name                = LoadSTR(in, 2),
                         !.m_isActive            = LoadBool(in, 3),
                         !.m_hierarchyVisibility = LoadBool(in, 4) ]
        componentCount == LoadInt(in, 5)
    IN  LoadComponents(o1, in, 6, componentCount)

\* the string that "m_ID = -1" leaves: the single character char(-1)
CharMinusOne == "\\xFF"

RECURSIVE DeleteComponents(_, _)
DeleteComponents(o, i) ==
    IF i > Len(o.m_components) THEN o
    ELSE LET c  == o.m_components[i]
             o1 == [ o EXCEPT
                       !.m_components[i].g_gameObject = NullPtr,
                       !.m_components[i].g_transform  = NullPtr,
                       !.destroyed = @ \cup { c.inst },
                       !.log = @ \o << Event("clear", c.inst, NullPtr),
                                       Event("delete", c.inst, NullPtr) >> ]
         IN  DeleteComponents(o1, i + 1)

\* a destructor that destroys every component without clearing its
\* back-references first, and leaves the identifier as it was
DestructorNoClear(o) ==
    [ o EXCEPT
        !.destroyed = @ \cup { o.m_components[i].inst : i \in 1..Len(o.m_components) },
        !.log = @ \o [ i \in 1..Len(o.m_components) |->
                         Event("delete", o.m_components[i].inst, NullPtr) ],
        !.m_components          = << >>,
        !.m_name                = "",
        !.m_isActive            = FALSE,
        !.m_hierarchyVisibility = FALSE ]

\* GameObject::~GameObject()
Destructor(o) ==
    [ DeleteComponents(o, 1) EXCEPT
        !.m_components          = << >>,
        !.m_ID                  = CharMinusOne,
        !.m_name                = "",
        !.m_isActive            = FALSE,
        !.m_hierarchyVisibility = FALSE ]

\* GENERATE_GUID: a token no earlier call has returned
GenerateGuid(n) == "guid-" \o ToString(n)

\* a constructor that adds no Transform
ConstructorBare(this, guid, heap) ==
    [ m_ID |-> guid, m_name |-> "GameObject", m_isActive |-> TRUE,
      m_hierarchyVisibility |-> TRUE, m_components |-> << >>,
      m_transform |-> NullPtr, m_handles |-> UnsetHandles,
      self |-> this, nextInst |-> heap.nextInst, destroyed |-> heap.destroyed,
      log |-> << Event("AddGameObjectToPool", this, NullPtr) >>, ub |-> FALSE ]

\* GameObject::GameObject() of the object at address this
Constructor(this, guid, heap) ==
    LET o == [ m_ID |-> guid, m_name |-> "GameObject", m_isActive |-> TRUE,
               m_hierarchyVisibility |-> TRUE, m_components |-> << >>,
               m_transform |-> Indeterminate, m_handles |-> UnsetHandles,
               self |-> this, nextInst |-> heap.nextInst,
               destroyed |-> heap.destroyed,
               log |-> << Event("AddGameObjectToPool", this, NullPtr) >>,
               ub |-> FALSE ]
        a == AddComponent(o, "Transform")
    IN  [ a.o EXCEPT !.m_transform = a.ret ]

\* GameObject::Initialize(...)
Initialize(o, handles) == [ o EXCEPT !.m_handles = handles ]

SetName(o, name) == [ o EXCEPT !.m_name = name ]

SetID(o, ID) == [ o EXCEPT !.m_ID = ID ]

SetActive(o, active) == [ o EXCEPT !.m_isActive = active ]

SetHierarchyVisibility(o, value) == [ o EXCEPT !.m_hierarchyVisibility = value ]

(***************************************************************************)
(* Files.  A file is described by what its writer put into it: the header  *)
(* fields and, per component, the tag and the payload fields.  Save()      *)
(* writes the file of the object; other files come from elsewhere and may  *)
(* carry a tag the dispatch table does not know.                           *)
(***************************************************************************)
UnknownTag == "Terrain"

NoFile == [ bySave |-> FALSE, ID |-> "", name |-> "", active |-> FALSE,
            hv |-> FALSE, entries |-> << >> ]

Describe(o) ==
    [ bySave |-> TRUE, ID |-> o.m_ID, name |-> o.m_name,
      active |-> o.m_isActive, hv |-> o.m_hierarchyVisibility,
      entries |-> [ i \in 1..Len(o.m_components) |->
                      [ tag |-> o.m_components[i].key,
                        payload |-> ComponentSave(o.m_components[i]) ] ] ]

\* the payloads a file from elsewhere holds under a tag: the one field of a
\* known component (a value no constructor sets), and no field or one field
\* under the unknown tag
ForeignPayloads(tag) ==
    IF tag = UnknownTag THEN { << >>, << INT(1) >> }
    ELSE { << INT(MaxData) >> }

\* the tags of S in ascending key order
SortedTags(S) ==
    CHOOSE q \in [ 1..Cardinality(S) -> S ] :
        \A i, j \in 1..Cardinality(S) : i < j => KeyLess(q[i], q[j])

\* files written by the Save() of another build of the engine: the keys of
\* its map, ascending, each followed by the component's fields
ForeignFiles ==
    UNION { { [ bySave |-> FALSE, ID |-> "id-A", name |-> "Player",
                active |-> FALSE, hv |-> FALSE,
                entries |-> [ i \in 1..Cardinality(S) |->
                                [ tag |-> SortedTags(S)[i],
                                  payload |-> p[SortedTags(S)[i]] ] ] ] :
              p \in { q \in [ S -> UNION { ForeignPayloads(t) : t \in S } ] :
                        \A t \in S : q[t] \in ForeignPayloads(t) } } :
            S \in SUBSET (Types \cup { UnknownTag }) }

RECURSIVE EncodeEntries(_, _)
EncodeEntries(e, i) ==
    IF i > Len(e) THEN << >>
    ELSE << STR(e[i].tag) >> \o e[i].payload \o EncodeEntries(e, i + 1)

Encode(d) ==
    << STR(d.ID), STR(d.name), BOOL(d.active), BOOL(d.hv), INT(Len(d.entries)) >>
    \o EncodeEntries(d.entries, 1)

(***************************************************************************)
(* Textures.  Two classes persist a texture: Texture writes its metadata   *)
(* through the Serializer, RHI_Texture writes its bits and properties      *)
(* through a FileStream.  File paths are strings.                          *)
(***************************************************************************)
EndsWith(s, suffix) ==
    /\ Len(s) >= Len(suffix)
    /\ SubSeq(s, Len(s) - Len(suffix) + 1, Len(s)) = suffix

StartsWith(s, prefix) ==
    /\ Len(s) >= Len(prefix)
    /\ SubSeq(s, 1, Len(prefix)) = prefix

\* the position of the last character c of s, 0 when s has none
LastIndexOf(s, c) ==
    LET at == { i \in 1..Len(s) : SubSeq(s, i, i) = c }
    IN  IF at = {} THEN 0 ELSE CHOOSE i \in at : \A j \in at : j <= i

\* FileSystem::GetFilePathWithoutExtension
GetFilePathWithoutExtension(path) ==
    LET dot == LastIndexOf(path, ".")
    IN  IF dot = 0 THEN path ELSE SubSeq(path, 1, dot - 1)

\* FileSystem::GetFileNameNoExtensionFromFilePath
GetFileNameNoExtensionFromPath(path) ==
    LET bare == GetFilePathWithoutExtension(path)
    IN  SubSeq(bare, LastIndexOf(bare, "/") + 1, Len(bare))

\* the directory of the engine, and FileSystem::GetRelativeFilePath
WorkingDirectory == "/engine/"

GetRelativeFilePath(path) ==
    IF StartsWith(path, WorkingDirectory)
    THEN SubSeq(path, Len(WorkingDirectory) + 1, Len(path))
    ELSE path

ImageExtensions == { ".png", ".jpg" }

TextureMetadataExtension == ".meta"

ExtensionTexture == ".tex"

NotAssigned == "N/A"

IsSupportedImageFile(path) == \E e \in ImageExtensions : EndsWith(path, e)

IsEngineTextureFile(path) == EndsWith(path, ExtensionTexture)

\* the image files the importer can decode, and what it decodes from them;
\* any other path fails to load
ImporterLoads(path) == path = "a.png"

ImageOf(path) ==
    [ width |-> 2, height |-> 1, channels |-> 4, bpp |-> 8,
      grayscale |-> FALSE, transparent |-> TRUE, view |-> 1,
      data |-> << << 7, 8 >>, << 9 >> >> ]

\* enum TextureType: the enumerators in the order of their declaration, the
\* first with discriminant 0
TextureTypes ==
    << "Albedo", "Roughness", "Metallic", "Normal", "Height", "Occlusion",
       "Emission", "Mask", "CubeMap" >>

Discriminant(name) ==
    ( CHOOSE i \in 1..Len(TextureTypes) : TextureTypes[i] = name ) - 1

LegalTextureTypes == { i - 1 : i \in 1..Len(TextureTypes) }

\* Texture::Texture()
TextureConstructor(guid) ==
    [ made |-> TRUE, m_ID |-> guid, m_name |-> NotAssigned,
      m_filePathTexture |-> NotAssigned, m_filePathMetadata |-> NotAssigned,
      m_width |-> 0, m_height |-> 0, m_shaderResourceView |-> NullPtr,
      m_type |-> Discriminant("Albedo"), m_grayscale |-> FALSE,
      m_transparency |-> FALSE, m_alphaIsTransparency |-> FALSE ]

\* Texture::Serialize(): the fields it appends to the stream
TextureSerialize(t) ==
    << STR(t.m_ID), STR(t.m_name), STR(t.m_filePathTexture),
       STR(t.m_filePathMetadata), INT(t.m_width), INT(t.m_height),
       INT(t.m_type), BOOL(t.m_grayscale), BOOL(t.m_transparency) >>

\* Texture::Deserialize() reading the stream in from its first field; the
\* cast TextureType(n) keeps the integer n whatever it is
TextureDeserialize(t, in) ==
    [ t EXCEPT !.m_ID               = LoadSTR(in, 1),
               !.m_name             = LoadSTR(in, 2),
               !.m_filePathTexture  = LoadSTR(in, 3),
               !.m_filePathMetadata = LoadSTR(in, 4),
               !.m_width            = LoadInt(in, 5),
               !.m_height           = LoadInt(in, 6),
               !.m_type             = LoadInt(in, 7),
               !.m_grayscale        = LoadBool(in, 8),
               !.m_transparency     = LoadBool(in, 9) ]

\* the metadata file on disk: its path and the fields written into it
NoMeta == [ path |-> "", fields |-> << >> ]

\* Texture::SaveToFile(filePath): the texture and the file it writes
TextureSaveToFile(t, filePath) ==
    LET t1 == [ t EXCEPT !.m_filePathTexture  = filePath,
                         !.m_filePathMetadata =
                             filePath \o t.m_name \o TextureMetadataExtension ]
    IN  [ t |-> t1,
          meta |-> [ path |-> t1.m_filePathMetadata,
                     fields |-> TextureSerialize(t1) ] ]

\* Texture::LoadMetadata(filePath) with the file meta on disk
TextureLoadMetadata(t, filePath, meta) ==
    IF meta.path # filePath \/ meta = NoMeta \/ ~IsSupportedImageFile(filePath)
    THEN [ t |-> t, ret |-> FALSE ]
    ELSE [ t |-> TextureDeserialize(t, meta.fields), ret |-> TRUE ]

\* Texture::LoadFromFile(path): the texture, the result and the log
TextureLoadFromFile(t, path, meta) ==
    IF ~ImporterLoads(path)
    THEN [ t |-> t, ret |-> FALSE, log |-> << "LOG_ERROR" >> ]
    ELSE LET image == ImageOf(path)
             t1 == [ t EXCEPT !.m_filePathTexture = path ]
             t2 == [ t1 EXCEPT !.m_filePathMetadata =
                         t1.m_filePathTexture \o t1.m_name \o TextureMetadataExtension ]
             t3 == [ t2 EXCEPT
                       !.m_name   = GetFileNameNoExtensionFromPath(t2.m_filePathTexture),
                       !.m_width  = image.width,
                       !.m_height = image.height,
                       !.m_grayscale    = image.grayscale,
                       !.m_transparency = image.transparent,
                       !.m_shaderResourceView = image.view ]
         IN  [ t |-> TextureLoadMetadata(t3, t3.m_filePathMetadata, meta).t,
               ret |-> TRUE, log |-> << >> ]

(***************************************************************************)
(* The FileStream: a file is the sequence of the fields written into it,   *)
(* each an unsigned integer, a boolean, a string or a block of bytes; a    *)
(* read of another kind of field, or past the end, yields a garbage value. *)
(***************************************************************************)
FUInt(n)  == [ k |-> "uint",  n |-> n, s |-> "", b |-> << >> ]
FBool(v)  == [ k |-> "bool",  n |-> IF v THEN 1 ELSE 0, s |-> "", b |-> << >> ]
FStr(s)   == [ k |-> "str",   n |-> 0, s |-> s,  b |-> << >> ]
FBytes(b) == [ k |-> "bytes", n |-> 0, s |-> "", b |-> b ]

FRead(file, pos, kind) ==
    IF pos <= Len(file) /\ file[pos].k = kind THEN file[pos]
    ELSE [ k |-> kind, n |-> 0, s |-> GarbageStr, b |-> << >> ]

\* the engine texture files SaveToFile is asked to write
EngineFiles == { "a.tex", "b.tex" }

\* the paths LoadFromFile is called with
RawPaths == { "a.png", "b.png", "a.tex", "b.tex", "a.txt", "/engine/a.png" }

\* a file that does not exist has no field; FileStream::IsOpen()
IsOpen(disk, path) == path \in DOMAIN disk /\ disk[path] # << >>

\* RHI_Texture::RHI_Texture(context), with the members IResource sets
RhiConstructor ==
    [ made |-> TRUE, m_isUsingMipmaps |-> TRUE, m_format |-> "R8G8B8A8_UNORM",
      m_shaderResource |-> NullPtr, m_memoryUsage |-> 0, m_data |-> << >>,
      m_bpp |-> 0, m_width |-> 0, m_height |-> 0, m_channels |-> 0,
      m_isGrayscale |-> FALSE, m_isTransparent |-> FALSE,
      m_resourceID |-> "res-1", m_resourceName |-> NotAssigned,
      m_resourceFilePath |-> NotAssigned, m_loadState |-> "Idle" ]

\* RHI_Texture::ClearTextureBytes()
ClearTextureBytes(t) == [ t EXCEPT !.m_data = << >> ]

\* the loop "emplace_back(...); file->Read(&m_data[i]);" after ReadUInt()
ReadMips(file) ==
    [ i \in 1..FRead(file, 1, "uint").n |-> FRead(file, 1 + i, "bytes").b ]

\* RHI_Texture::GetTextureBytes(&m_data)
GetTextureBytes(t, disk) ==
    IF t.m_data # << >> THEN t
    ELSE IF ~IsOpen(disk, t.m_resourceFilePath) THEN t
    ELSE [ t EXCEPT !.m_data = ReadMips(disk[t.m_resourceFilePath]) ]

\* the fields RHI_Texture::Serialize writes
RhiFields(t) ==
    << FUInt(Len(t.m_data)) >>
    \o [ i \in 1..Len(t.m_data) |-> FBytes(t.m_data[i]) ]
    \o << FUInt(t.m_bpp), FUInt(t.m_width), FUInt(t.m_height),
          FUInt(t.m_channels), FBool(t.m_isGrayscale), FBool(t.m_isTransparent),
          FBool(t.m_isUsingMipmaps), FStr(t.m_resourceID),
          FStr(t.m_resourceName), FStr(t.m_resourceFilePath) >>

\* RHI_Texture::Serialize(filePath); opens: whether the file opens for writing
RhiSerialize(t, disk, filePath, opens) ==
    LET t1 == GetTextureBytes(t, disk)
    IN  IF ~opens THEN [ t |-> t1, disk |-> disk, ret |-> FALSE ]
        ELSE [ t |-> ClearTextureBytes(t1),
               disk |-> [ disk EXCEPT ![filePath] = RhiFields(t1) ],
               ret |-> TRUE ]

\* Deserialize that reads the height before the width
RhiDeserializeSwapped(t, disk, filePath) ==
    IF ~IsOpen(disk, filePath) THEN [ t |-> t, ret |-> FALSE ]
    ELSE LET file == disk[filePath]
             p    == 1 + FRead(file, 1, "uint").n
         IN  [ t |-> [ ClearTextureBytes(t) EXCEPT
                         !.m_data             = ReadMips(file),
                         !.m_bpp              = FRead(file, p + 1, "uint").n,
                         !.m_height           = FRead(file, p + 2, "uint").n,
                         !.m_width            = FRead(file, p + 3, "uint").n,
                         !.m_channels         = FRead(file, p + 4, "uint").n,
                         !.m_isGrayscale      = FRead(file, p + 5, "bool").n = 1,
                         !.m_isTransparent    = FRead(file, p + 6, "bool").n = 1,
                         !.m_isUsingMipmaps   = FRead(file, p + 7, "bool").n = 1,
                         !.m_resourceID       = FRead(file, p + 8, "str").s,
                         !.m_resourceName     = FRead(file, p + 9, "str").s,
                         !.m_resourceFilePath = FRead(file, p + 10, "str").s ],
               ret |-> TRUE ]

\* RHI_Texture::Deserialize(filePath)
RhiDeserialize(t, disk, filePath) ==
    IF ~IsOpen(disk, filePath) THEN [ t |-> t, ret |-> FALSE ]
    ELSE LET file == disk[filePath]
             p    == 1 + FRead(file, 1, "uint").n
         IN  [ t |-> [ ClearTextureBytes(t) EXCEPT
                         !.m_data             = ReadMips(file),
                         !.m_bpp              = FRead(file, p + 1, "uint").n,
                         !.m_width            = FRead(file, p + 2, "uint").n,
                         !.m_height           = FRead(file, p + 3, "uint").n,
                         !.m_channels         = FRead(file, p + 4, "uint").n,
                         !.m_isGrayscale      = FRead(file, p + 5, "bool").n = 1,
                         !.m_isTransparent    = FRead(file, p + 6, "bool").n = 1,
                         !.m_isUsingMipmaps   = FRead(file, p + 7, "bool").n = 1,
                         !.m_resourceID       = FRead(file, p + 8, "str").s,
                         !.m_resourceName     = FRead(file, p + 9, "str").s,
                         !.m_resourceFilePath = FRead(file, p + 10, "str").s ],
               ret |-> TRUE ]

\* RHI_Texture::LoadFromForeignFormat(filePath)
LoadFromForeignFormat(t, filePath) ==
    IF filePath = NotAssigned
    THEN [ t |-> t, ret |-> FALSE, log |-> << "LOG_WARNING" >> ]
    ELSE IF ~ImporterLoads(filePath)
    THEN [ t |-> t, ret |-> FALSE, log |-> << >> ]
    ELSE LET image == ImageOf(filePath)
             t1 == [ t EXCEPT
                       !.m_data          = image.data,
                       !.m_bpp           = image.bpp,
                       !.m_width         = image.width,
                       !.m_height        = image.height,
                       !.m_channels      = image.channels,
                       !.m_isGrayscale   = image.grayscale,
                       !.m_isTransparent = image.transparent ]
             t2 == [ t1 EXCEPT !.m_resourceFilePath =
                         GetFilePathWithoutExtension(filePath) \o ExtensionTexture ]
         IN  [ t |-> [ t2 EXCEPT !.m_resourceName =
                           GetFileNameNoExtensionFromPath(t2.m_resourceFilePath) ],
               ret |-> TRUE, log |-> << >> ]

\* LoadFromFile that keeps the bits of an engine texture file in memory
RhiLoadFromFileKeepBits(t, disk, rawFilePath, created) ==
    LET t0       == [ ClearTextureBytes(t) EXCEPT !.m_loadState = "Started" ]
        filePath == GetRelativeFilePath(rawFilePath)
        engine   == IsEngineTextureFile(filePath)
    IN  IF ~engine /\ ~IsSupportedImageFile(filePath)
        THEN [ t    |-> [ t0 EXCEPT !.m_loadState = "Failed" ],
               ret  |-> FALSE, bits |-> << >>,
               log  |-> << "clear", "Started", "LOG_ERROR", "Failed" >> ]
        ELSE LET inner == IF engine
                          THEN [ t |-> RhiDeserialize(t0, disk, filePath).t,
                                 log |-> << >> ]
                          ELSE LoadFromForeignFormat(t0, filePath)
                 t1 == [ inner.t EXCEPT
                           !.m_shaderResource = IF created THEN 1 ELSE @ ]
             IN  [ t    |-> [ t1 EXCEPT !.m_loadState = "Completed" ],
                   ret  |-> TRUE, bits |-> inner.t.m_data,
                   log  |-> << "clear", "Started" >> \o inner.log
                            \o ( IF created THEN << >> ELSE << "LOG_ERROR" >> )
                            \o << "Completed" >> ]

\* RHI_Texture::LoadFromFile(rawFilePath); created: whether the device creates
\* the shader resource.  bits is what the file gave, log the calls made.
RhiLoadFromFile(t, disk, rawFilePath, created) ==
    LET t0       == [ ClearTextureBytes(t) EXCEPT !.m_loadState = "Started" ]
        filePath == GetRelativeFilePath(rawFilePath)
        engine   == IsEngineTextureFile(filePath)
    IN  IF ~engine /\ ~IsSupportedImageFile(filePath)
        THEN [ t    |-> [ t0 EXCEPT !.m_loadState = "Failed" ],
               ret  |-> FALSE, bits |-> << >>,
               log  |-> << "clear", "Started", "LOG_ERROR", "Failed" >> ]
        ELSE LET inner == IF engine
                          THEN [ t |-> RhiDeserialize(t0, disk, filePath).t,
                                 log |-> << >> ]
                          ELSE LoadFromForeignFormat(t0, filePath)
                 t1 == [ inner.t EXCEPT
                           !.m_shaderResource = IF created THEN 1 ELSE @ ]
                 t2 == IF created /\ engine THEN ClearTextureBytes(t1) ELSE t1
             IN  [ t    |-> [ t2 EXCEPT !.m_loadState = "Completed" ],
                   ret  |-> TRUE, bits |-> inner.t.m_data,
                   log  |-> << "clear", "Started" >> \o inner.log
                            \o ( IF created THEN << >> ELSE << "LOG_ERROR" >> )
                            \o << "Completed" >> ]

(***************************************************************************)
(* State.                                                                  *)
(***************************************************************************)
VARIABLES
    phase,                  \* "none", "live", "dead" or "crashed"
    this,                   \* address of the object
    m_ID, m_name, m_isActive, m_hierarchyVisibility,
    m_components, m_transform, m_handles,
    nextInst,               \* the next address "new" returns
    destroyed,              \* addresses that have been deleted
    guidCalls,              \* number of GENERATE_GUID calls so far
    pristine,               \* no call but Initialize() since the constructor
    stream,                 \* the fields of the file Save() wrote last
    saved,                  \* what that file was written from
    lastOp,                 \* the last call: arguments, result, calls it made
    peer,                   \* a second GameObject of the same process
    tex,                    \* a Texture
    metaFile,               \* the metadata file on disk
    texOp,                  \* the last call on the Texture
    rhi,                    \* an RHI_Texture
    disk,                   \* the engine texture files on disk
    rhiOp                   \* the last call on the RHI_Texture

textureVars == << tex, metaFile, texOp >>

rhiVars == << rhi, disk, rhiOp >>

\* what the calls on the first object leave alone
auxVars == << peer, textureVars, rhiVars >>

\* the GameObjects, their heap and their file
objectVars == << phase, this, m_ID, m_name, m_isActive, m_hierarchyVisibility,
                m_components, m_transform, m_handles, nextInst, destroyed,
                pristine, stream, saved, lastOp, peer >>

vars == << phase, this, m_ID, m_name, m_isActive, m_hierarchyVisibility,
           m_components, m_transform, m_handles, nextInst, destroyed,
           guidCalls, pristine, stream, saved, lastOp, auxVars >>

\* no second object yet
NoPeer ==
    [ live |-> FALSE, m_ID |-> "", m_name |-> "", m_isActive |-> FALSE,
      m_hierarchyVisibility |-> FALSE, m_components |-> << >>,
      m_transform |-> Indeterminate, m_handles |-> UnsetHandles, self |-> 0 ]

\* the address of the second object: the first is at 1..MaxObjects
PeerAddr == MaxObjects + 1

\* the identifiers a client passes to SetID
IDs == { "id-A", "id-B" }

Names == { "GameObject", "Player" }

NoType == "-"

\* the exploration follows a file from its writing to its removal, and the
\* clients make no other call on the object meanwhile
FileIdle == saved = NoFile

\* the second object, with the heap of the process
PeerCur ==
    [ m_ID |-> peer.m_ID, m_name |-> peer.m_name, m_isActive |-> peer.m_isActive,
      m_hierarchyVisibility |-> peer.m_hierarchyVisibility,
      m_components |-> peer.m_components, m_transform |-> peer.m_transform,
      m_handles |-> peer.m_handles, self |-> peer.self, nextInst |-> nextInst,
      destroyed |-> destroyed, log |-> << >>, ub |-> FALSE ]

Cur ==
    [ m_ID |-> m_ID, m_name |-> m_name, m_isActive |-> m_isActive,
      m_hierarchyVisibility |-> m_hierarchyVisibility,
      m_components |-> m_components, m_transform |-> m_transform,
      m_handles |-> m_handles, self |-> this, nextInst |-> nextInst,
      destroyed |-> destroyed, log |-> << >>, ub |-> FALSE ]

Call(op, T, ret, o, src) ==
    [ op |-> op, T |-> T, ret |-> ret, log |-> o.log,
      rep |-> (lastOp.op = op /\ lastOp.T = T),
      fresh |-> pristine, sizeBefore |-> Len(m_components), src |-> src ]

\* the object after a call; a call through an indeterminate pointer either
\* returns or takes the process down
Commit(o, ph) ==
    /\ \E crash \in (IF o.ub THEN BOOLEAN ELSE { FALSE }) :
          phase' = IF crash THEN "crashed" ELSE ph
    /\ m_ID' = o.m_ID
    /\ m_name' = o.m_name
    /\ m_isActive' = o.m_isActive
    /\ m_hierarchyVisibility' = o.m_hierarchyVisibility
    /\ m_components' = o.m_components
    /\ m_transform' = o.m_transform
    /\ m_handles' = o.m_handles
    /\ nextInst' = o.nextInst
    /\ destroyed' = o.destroyed

\* the second object after a call on it
PeerCommit(o) ==
    /\ \E crash \in (IF o.ub THEN BOOLEAN ELSE { FALSE }) :
          phase' = IF crash THEN "crashed" ELSE phase
    /\ peer' = [ live |-> TRUE, m_ID |-> o.m_ID, m_name |-> o.m_name,
                 m_isActive |-> o.m_isActive,
                 m_hierarchyVisibility |-> o.m_hierarchyVisibility,
                 m_components |-> o.m_components, m_transform |-> o.m_transform,
                 m_handles |-> o.m_handles, self |-> o.self ]
    /\ nextInst' = o.nextInst
    /\ destroyed' = o.destroyed

Init ==
    /\ phase = "none"
    /\ this = 0
    /\ m_ID = ""
    /\ m_name = ""
    /\ m_isActive = FALSE
    /\ m_hierarchyVisibility = FALSE
    /\ m_components = << >>
    /\ m_transform = Indeterminate
    /\ m_handles = UnsetHandles
    /\ nextInst = 1
    /\ destroyed = {}
    /\ guidCalls = 0
    /\ pristine = FALSE
    /\ stream = << >>
    /\ saved = NoFile
    /\ lastOp = [ op |-> "none", T |-> NoType, ret |-> NullPtr, log |-> << >>,
                  rep |-> FALSE, fresh |-> FALSE,
                  sizeBefore |-> 0, src |-> NoFile ]
    /\ peer = NoPeer
    /\ tex = [ TextureConstructor("") EXCEPT !.made = FALSE ]
    /\ metaFile = NoMeta
    /\ texOp = [ op |-> "none", ret |-> FALSE, log |-> << >>, src |-> << >> ]
    /\ rhi = [ RhiConstructor EXCEPT !.made = FALSE ]
    /\ disk = [ path \in EngineFiles |-> << >> ]
    /\ rhiOp = [ op |-> "none", path |-> "", ret |-> FALSE, log |-> << >>,
                 bits |-> << >>, created |-> FALSE ]

(***************************************************************************)
(* Actions: one per call a client of the object can make.                  *)
(***************************************************************************)
\* new GameObject()
New ==
    /\ phase \in { "none", "dead" }
    /\ guidCalls < MaxObjects
    /\ nextInst <= MaxInst
    /\ LET o == Constructor(this + 1, GenerateGuid(guidCalls + 1),
                            [ nextInst |-> nextInst, destroyed |-> destroyed ])
       IN  /\ Commit(o, "live")
           /\ lastOp' = Call("GameObject", NoType, NullPtr, o, NoFile)
    /\ this' = this + 1
    /\ guidCalls' = guidCalls + 1
    /\ pristine' = TRUE
    /\ UNCHANGED << stream, saved >>
    /\ UNCHANGED auxVars

\* delete gameObject
Delete ==
    /\ phase = "live"
    /\ LET o == Destructor(Cur)
       IN  /\ Commit(o, "dead")
           /\ lastOp' = Call("~GameObject", NoType, NullPtr, o, NoFile)
    /\ pristine' = FALSE
    /\ UNCHANGED << this, guidCalls, stream, saved >>
    /\ UNCHANGED auxVars

CallInitialize ==
    /\ phase = "live"
    /\ LET o == Initialize(Cur, EngineHandles)
       IN  /\ Commit(o, "live")
           /\ lastOp' = Call("Initialize", NoType, NullPtr, o, NoFile)
    /\ UNCHANGED << this, guidCalls, pristine, stream, saved >>
    /\ UNCHANGED auxVars

CallUpdate ==
    /\ phase = "live"
    /\ FileIdle
    /\ LET o == Update(Cur)
       IN  /\ Commit(o, "live")
           /\ lastOp' = Call("Update", NoType, NullPtr, o, NoFile)
    /\ pristine' = FALSE
    /\ UNCHANGED << this, guidCalls, stream, saved >>
    /\ UNCHANGED auxVars

CallSetName ==
    /\ phase = "live"
    /\ FileIdle
    /\ \E name \in Names :
         LET o == SetName(Cur, name)
         IN  /\ Commit(o, "live")
             /\ lastOp' = Call("SetName", NoType, NullPtr, o, NoFile)
    /\ pristine' = FALSE
    /\ UNCHANGED << this, guidCalls, stream, saved >>
    /\ UNCHANGED auxVars

CallSetActive ==
    /\ phase = "live"
    /\ FileIdle
    /\ \E active \in BOOLEAN :
         LET o == SetActive(Cur, active)
         IN  /\ Commit(o, "live")
             /\ lastOp' = Call("SetActive", NoType, NullPtr, o, NoFile)
    /\ pristine' = FALSE
    /\ UNCHANGED << this, guidCalls, stream, saved >>
    /\ UNCHANGED auxVars

CallSetHierarchyVisibility ==
    /\ phase = "live"
    /\ FileIdle
    /\ \E value \in BOOLEAN :
         LET o == SetHierarchyVisibility(Cur, value)
         IN  /\ Commit(o, "live")
             /\ lastOp' = Call("SetHierarchyVisibility", NoType, NullPtr, o, NoFile)
    /\ pristine' = FALSE
    /\ UNCHANGED << this, guidCalls, stream, saved >>
    /\ UNCHANGED auxVars

CallAddComponent ==
    /\ phase = "live"
    /\ FileIdle
    /\ \E Type \in Types :
         LET a == AddComponent(Cur, Type)
         IN  /\ a.o.nextInst <= MaxInst + 1
             /\ Commit(a.o, "live")
             /\ lastOp' = Call("AddComponent", Type, a.ret, a.o, NoFile)
    /\ pristine' = FALSE
    /\ UNCHANGED << this, guidCalls, stream, saved >>
    /\ UNCHANGED auxVars

CallGetComponent ==
    /\ phase = "live"
    /\ FileIdle
    /\ \E Type \in Types :
         /\ Commit(Cur, "live")
         /\ lastOp' = Call("GetComponent", Type, GetComponent(Cur, Type), Cur, NoFile)
    /\ pristine' = FALSE
    /\ UNCHANGED << this, guidCalls, stream, saved >>
    /\ UNCHANGED auxVars

CallHasComponent ==
    /\ phase = "live"
    /\ FileIdle
    /\ \E Type \in Types :
         /\ Commit(Cur, "live")
         /\ lastOp' = Call("HasComponent", Type,
                           IF HasComponent(Cur, Type) THEN 1 ELSE 0, Cur, NoFile)
    /\ pristine' = FALSE
    /\ UNCHANGED << this, guidCalls, stream, saved >>
    /\ UNCHANGED auxVars

CallRemoveComponent ==
    /\ phase = "live"
    /\ FileIdle
    /\ \E Type \in Types :
         LET o == RemoveComponent(Cur, Type)
         IN  /\ Commit(o, "live")
             /\ lastOp' = Call("RemoveComponent", Type, NullPtr, o, NoFile)
    /\ pristine' = FALSE
    /\ UNCHANGED << this, guidCalls, stream, saved >>
    /\ UNCHANGED auxVars

CallGetTransform ==
    /\ phase = "live"
    /\ FileIdle
    /\ Commit(Cur, "live")
    /\ lastOp' = Call("GetTransform", NoType, GetTransform(Cur), Cur, NoFile)
    /\ pristine' = FALSE
    /\ UNCHANGED << this, guidCalls, stream, saved >>
    /\ UNCHANGED auxVars

\* a component's own setter changes its persisted field
SetComponentData ==
    /\ phase = "live"
    /\ FileIdle
    /\ \E i \in 1..Len(m_components), v \in 0..MaxData :
         LET o == [ Cur EXCEPT !.m_components[i].data = v ]
         IN  /\ Commit(o, "live")
             /\ lastOp' = Call("SetData", m_components[i].type, NullPtr, o, NoFile)
    /\ pristine' = FALSE
    /\ UNCHANGED << this, guidCalls, stream, saved >>
    /\ UNCHANGED auxVars

\* StartWriting(file); gameObject->Save(); StopWriting()
CallSave ==
    /\ phase = "live"
    /\ FileIdle
    /\ Commit(Cur, "live")
    /\ stream' = Save(Cur)
    /\ saved' = Describe(Cur)
    /\ lastOp' = Call("Save", NoType, NullPtr, Cur, Describe(Cur))
    /\ pristine' = FALSE
    /\ UNCHANGED << this, guidCalls >>
    /\ UNCHANGED auxVars

\* StartReading(file); gameObject->Load(); StopReading()
CallLoad ==
    /\ phase = "live"
    /\ saved # NoFile
    /\ LET o == Load(Cur, stream)
       IN  /\ o.nextInst <= MaxInst + 1
           /\ Commit(o, "live")
           /\ lastOp' = Call("Load", NoType, NullPtr, o, saved)
    /\ pristine' = FALSE
    /\ UNCHANGED << this, guidCalls, stream, saved >>
    /\ UNCHANGED auxVars

\* a file written elsewhere is put in place of the file Save() writes
PutFile ==
    /\ phase # "crashed"
    /\ FileIdle
    /\ \E f \in ForeignFiles :
         /\ stream' = Encode(f)
         /\ saved' = f
    /\ lastOp' = Call("PutFile", NoType, NullPtr, Cur, NoFile)
    /\ UNCHANGED << phase, this, m_ID, m_name, m_isActive, m_hierarchyVisibility,
                    m_components, m_transform, m_handles, nextInst, destroyed,
                    guidCalls, pristine >>
    /\ UNCHANGED auxVars

\* the file is deleted
RemoveFile ==
    /\ phase # "crashed"
    /\ saved # NoFile
    /\ stream' = << >>
    /\ saved' = NoFile
    /\ lastOp' = Call("RemoveFile", NoType, NullPtr, Cur, NoFile)
    /\ UNCHANGED << phase, this, m_ID, m_name, m_isActive, m_hierarchyVisibility,
                    m_components, m_transform, m_handles, nextInst, destroyed,
                    guidCalls, pristine >>
    /\ UNCHANGED auxVars

CallSetID ==
    /\ phase = "live"
    /\ FileIdle
    /\ \E ID \in IDs :
         LET o == SetID(Cur, ID)
         IN  /\ Commit(o, "live")
             /\ lastOp' = Call("SetID", NoType, NullPtr, o, NoFile)
    /\ pristine' = FALSE
    /\ UNCHANGED << this, guidCalls, stream, saved >>
    /\ UNCHANGED auxVars

\* new GameObject() while the first object may be alive
PeerNew ==
    /\ phase # "crashed"
    /\ ~peer.live
    /\ guidCalls < MaxObjects
    /\ nextInst <= MaxInst
    /\ PeerCommit(Constructor(PeerAddr, GenerateGuid(guidCalls + 1),
                              [ nextInst |-> nextInst, destroyed |-> destroyed ]))
    /\ guidCalls' = guidCalls + 1
    /\ UNCHANGED << this, m_ID, m_name, m_isActive, m_hierarchyVisibility,
                    m_components, m_transform, m_handles, pristine, stream,
                    saved, lastOp >>
    /\ UNCHANGED << textureVars, rhiVars >>

\* SetID on the second object
PeerSetID ==
    /\ phase # "crashed"
    /\ peer.live
    /\ FileIdle
    /\ \E ID \in IDs : PeerCommit(SetID(PeerCur, ID))
    /\ UNCHANGED << this, m_ID, m_name, m_isActive, m_hierarchyVisibility,
                    m_components, m_transform, m_handles, guidCalls, pristine,
                    stream, saved, lastOp >>
    /\ UNCHANGED << textureVars, rhiVars >>

\* StartReading(file); Load() on the second object; StopReading()
PeerLoad ==
    /\ phase # "crashed"
    /\ peer.live
    /\ saved # NoFile
    /\ LET o == Load(PeerCur, stream)
       IN  /\ o.nextInst <= MaxInst + 1
           /\ PeerCommit(o)
    /\ UNCHANGED << this, m_ID, m_name, m_isActive, m_hierarchyVisibility,
                    m_components, m_transform, m_handles, guidCalls, pristine,
                    stream, saved, lastOp >>
    /\ UNCHANGED << textureVars, rhiVars >>

(***************************************************************************)
(* Actions on the Texture and on its metadata file.                        *)
(***************************************************************************)
TextureNames == { "wood", "brick" }

TexturePaths == { "a.png", "b.png" }

\* the types a client passes to SetType
TextureTypeInputs == { Discriminant("Albedo"), Discriminant("Normal") }

\* the type integers found in metadata files written elsewhere
ForeignTypes == { 0 - 1, Discriminant("Mask"), Len(TextureTypes) }

\* new Texture()
TexNew ==
    /\ ~tex.made
    /\ guidCalls < MaxObjects
    /\ tex' = TextureConstructor(GenerateGuid(guidCalls + 1))
    /\ guidCalls' = guidCalls + 1
    /\ texOp' = [ op |-> "Texture", ret |-> TRUE, log |-> << >>, src |-> << >> ]
    /\ UNCHANGED << metaFile, objectVars, rhiVars >>

CallTextureSetName ==
    /\ tex.made
    /\ \E name \in TextureNames : tex' = [ tex EXCEPT !.m_name = name ]
    /\ texOp' = [ op |-> "SetName", ret |-> TRUE, log |-> << >>, src |-> << >> ]
    /\ UNCHANGED << metaFile, guidCalls, objectVars, rhiVars >>

CallTextureSetType ==
    /\ tex.made
    /\ \E type \in TextureTypeInputs : tex' = [ tex EXCEPT !.m_type = type ]
    /\ texOp' = [ op |-> "SetType", ret |-> TRUE, log |-> << >>, src |-> << >> ]
    /\ UNCHANGED << metaFile, guidCalls, objectVars, rhiVars >>

CallTextureSaveToFile ==
    /\ tex.made
    /\ \E filePath \in TexturePaths :
         LET r == TextureSaveToFile(tex, filePath)
         IN  /\ tex' = r.t
             /\ metaFile' = r.meta
             /\ texOp' = [ op |-> "SaveToFile", ret |-> TRUE, log |-> << >>,
                           src |-> r.meta.fields ]
    /\ UNCHANGED << guidCalls, objectVars, rhiVars >>

CallTextureLoadFromFile ==
    /\ tex.made
    /\ \E path \in TexturePaths :
         LET r == TextureLoadFromFile(tex, path, metaFile)
         IN  /\ tex' = r.t
             /\ texOp' = [ op |-> "LoadFromFile", ret |-> r.ret, log |-> r.log,
                           src |-> << >> ]
    /\ UNCHANGED << metaFile, guidCalls, objectVars, rhiVars >>

\* StartReading(metadata file); texture->Deserialize(); StopReading()
CallTextureDeserialize ==
    /\ tex.made
    /\ metaFile # NoMeta
    /\ tex' = TextureDeserialize(tex, metaFile.fields)
    /\ texOp' = [ op |-> "Deserialize", ret |-> TRUE, log |-> << >>,
                  src |-> metaFile.fields ]
    /\ UNCHANGED << metaFile, guidCalls, objectVars, rhiVars >>

\* a metadata file written elsewhere is put on disk
PutMetadata ==
    /\ \E type \in ForeignTypes :
         metaFile' =
           [ path |-> "c.png" \o TextureMetadataExtension,
             fields |-> TextureSerialize(
                          [ TextureConstructor("id-T") EXCEPT !.m_type = type ]) ]
    /\ UNCHANGED << tex, texOp, guidCalls, objectVars, rhiVars >>

(***************************************************************************)
(* Actions on the RHI_Texture and on the engine texture files.             *)
(***************************************************************************)
\* new RHI_Texture(context)
RhiNew ==
    /\ ~rhi.made
    /\ rhi' = RhiConstructor
    /\ rhiOp' = [ op |-> "RHI_Texture", path |-> "", ret |-> TRUE,
                  log |-> << >>, bits |-> << >>, created |-> FALSE ]
    /\ UNCHANGED << disk, guidCalls, objectVars, textureVars >>

CallRhiLoadFromFile ==
    /\ rhi.made
    /\ \E rawFilePath \in RawPaths, created \in BOOLEAN :
         LET r == RhiLoadFromFile(rhi, disk, rawFilePath, created)
         IN  /\ rhi' = r.t
             /\ rhiOp' = [ op |-> "LoadFromFile", path |-> rawFilePath,
                           ret |-> r.ret, log |-> r.log,
                           bits |-> r.bits, created |-> ( r.ret /\ created ) ]
    /\ UNCHANGED << disk, guidCalls, objectVars, textureVars >>

CallRhiSaveToFile ==
    /\ rhi.made
    /\ \E filePath \in EngineFiles, opens \in BOOLEAN :
         LET r == RhiSerialize(rhi, disk, filePath, opens)
         IN  /\ rhi' = r.t
             /\ disk' = r.disk
             /\ rhiOp' = [ op |-> "SaveToFile", path |-> filePath, ret |-> r.ret,
                           log |-> << >>, bits |-> rhiOp.bits,
                           created |-> FALSE ]
    /\ UNCHANGED << guidCalls, objectVars, textureVars >>

(***************************************************************************)
(* The component collection of one object: construction, the calls by      *)
(* capability type, the update fan-out, and Load() of files written        *)
(* elsewhere.                                                              *)
(***************************************************************************)
Next ==
    \/ New
    \/ CallInitialize
    \/ CallUpdate
    \/ CallSetActive
    \/ CallAddComponent
    \/ CallGetComponent
    \/ CallHasComponent
    \/ CallRemoveComponent
    \/ CallGetTransform
    \/ CallSave
    \/ PutFile
    \/ CallLoad
    \/ RemoveFile

Spec == Init /\ [][Next]_vars

(***************************************************************************)
(* Persistence: an object is set up, saved and destroyed, and the file is  *)
(* loaded by an object constructed after it.                               *)
(***************************************************************************)
NextPersist ==
    \/ New
    \/ Delete
    \/ CallInitialize
    \/ CallSetName
    \/ CallSetActive
    \/ CallSetHierarchyVisibility
    \/ CallAddComponent
    \/ CallRemoveComponent
    \/ SetComponentData
    \/ CallSave
    \/ CallLoad
    \/ RemoveFile

SpecPersist == Init /\ [][NextPersist]_vars

(***************************************************************************)
(* Lifetime: objects are constructed, gain and lose components, and are    *)
(* destroyed.                                                              *)
(***************************************************************************)
NextLifetime ==
    \/ New
    \/ Delete
    \/ CallInitialize
    \/ CallAddComponent
    \/ CallRemoveComponent

SpecLifetime == Init /\ [][NextLifetime]_vars

(***************************************************************************)
(* Identifiers: two objects of one process are constructed, given          *)
(* identifiers by SetID, and load the file one of them saved.              *)
(***************************************************************************)
NextTwo ==
    \/ New
    \/ PeerNew
    \/ CallSetID
    \/ PeerSetID
    \/ CallSave
    \/ CallLoad
    \/ PeerLoad
    \/ RemoveFile

SpecTwo == Init /\ [][NextTwo]_vars

(***************************************************************************)
(* The Texture: construction, setters, SaveToFile, LoadFromFile and        *)
(* Deserialize of the metadata file on disk.                               *)
(***************************************************************************)
NextTexture ==
    \/ TexNew
    \/ CallTextureSetName
    \/ CallTextureSetType
    \/ CallTextureSaveToFile
    \/ CallTextureLoadFromFile
    \/ CallTextureDeserialize
    \/ PutMetadata

SpecTexture == Init /\ [][NextTexture]_vars

(***************************************************************************)
(* The RHI_Texture: construction, LoadFromFile and SaveToFile.             *)
(***************************************************************************)
NextRHI ==
    \/ RhiNew
    \/ CallRhiLoadFromFile
    \/ CallRhiSaveToFile

SpecRHI == Init /\ [][NextRHI]_vars

(***************************************************************************)
(* Writers and readers: a Texture and an RHI_Texture are saved, and the    *)
(* files are read back.                                                    *)
(***************************************************************************)
NextSymmetry ==
    \/ TexNew
    \/ CallTextureSetType
    \/ CallTextureSaveToFile
    \/ CallTextureDeserialize
    \/ RhiNew
    \/ CallRhiLoadFromFile
    \/ CallRhiSaveToFile

SpecSymmetry == Init /\ [][NextSymmetry]_vars

(***************************************************************************)
(* Properties.                                                             *)
(***************************************************************************)
\* the entries of m whose component a GetComponent<Type>() request matches
Matching(m, Type) == { i \in 1..Len(m) : DynamicCast(m[i].type, Type) }

\* the number of events named e in a log
Count(log, e) == Cardinality({ i \in 1..Len(log) : log[i].e = e })

AllTypes == { ComponentTypes[i] : i \in 1..Len(ComponentTypes) }

\* C1: AddComponent<T>() called twice in a row returns the same component
\* both times; the second call leaves the collection as it is, and after it
\* the collection has at most one entry more than before the first call.
C1_AddTwice ==
    [][ ( /\ lastOp.op = "AddComponent"
          /\ lastOp'.op = "AddComponent"
          /\ lastOp'.T = lastOp.T )
        => ( /\ lastOp'.ret = lastOp.ret
             /\ lastOp'.ret # NullPtr
             /\ m_components' = m_components
             /\ Len(m_components') <= lastOp.sizeBefore + 1 ) ]_vars

\* a second AddComponent<T>() has returned, for a T the first call created
C1_Witness ==
    /\ phase = "live"
    /\ lastOp.op = "AddComponent"
    /\ lastOp.rep
    /\ lastOp.T # "Transform"
    /\ lastOp.log = << >>
    /\ lastOp.sizeBefore >= 2

\* C2: the object owns at most one component of each capability type: no
\* GetComponent<T>() request matches two entries of the collection.
C2_OnePerType ==
    \A Type \in AllTypes : Cardinality(Matching(m_components, Type)) <= 1

\* Load() has run on an object that then owns every instantiated type
C2_Witness ==
    /\ phase = "live"
    /\ lastOp.op = "Load"
    /\ Len(m_components) = NumTypes
    /\ Count(lastOp.log, "new") >= 1

\* C3: right after construction the object owns exactly one component, a
\* Transform, which GetComponent<Transform>() and GetTransform() both return.
C3_FreshObject ==
    ( phase = "live" /\ lastOp.op = "GameObject" )
    => ( /\ Len(m_components) = 1
         /\ m_components[1].type = "Transform"
         /\ GetComponent(Cur, "Transform") = m_components[1].inst
         /\ GetTransform(Cur) = m_components[1].inst )

\* the constructor has returned and nothing has been called since
C3_Witness ==
    /\ phase = "live"
    /\ lastOp.op = "GameObject"
    /\ pristine
    /\ m_transform = nextInst - 1

\* C4: after RemoveComponent<T>() returns, HasComponent<T>() is false; the
\* call removes at most one entry, and none when no component matched T.
C4_RemoveThenHas ==
    [][ lastOp'.op = "RemoveComponent"
        => ( /\ ~HasComponent([ m_components |-> m_components' ], lastOp'.T)
             /\ Len(m_components') >= Len(m_components) - 1
             /\ ( ~HasComponent(Cur, lastOp'.T) => m_components' = m_components ) ) ]_vars

\* RemoveComponent<T>() has removed a component, Transform included
C4_Witness ==
    /\ phase = "live"
    /\ lastOp.op = "RemoveComponent"
    /\ lastOp.T = "Transform"
    /\ Count(lastOp.log, "delete") = 1
    /\ Len(m_components) = lastOp.sizeBefore - 1

\* the tags of a file and the keys of a collection
FileTags(f) == { f.entries[i].tag : i \in 1..Len(f.entries) }

Keys(m) == { m[i].key : i \in 1..Len(m) }

\* the collection m holds, under the tag of entry e, the fields e was written with
Restored(m, e) ==
    \E k \in 1..Len(m) : m[k].key = e.tag /\ ComponentSave(m[k]) = e.payload

\* C5: Save() and then Load() of that file on a newly constructed object
\* yields the identifier, name and flags of the saved object and exactly its
\* set of tags, each component with the saved field values.
C5_RoundTrip ==
    ( phase = "live" /\ lastOp.op = "Load" /\ lastOp.fresh /\ lastOp.src.bySave )
    => ( /\ m_ID = lastOp.src.ID
         /\ m_name = lastOp.src.name
         /\ m_isActive = lastOp.src.active
         /\ m_hierarchyVisibility = lastOp.src.hv
         /\ Keys(m_components) = FileTags(lastOp.src)
         /\ \A i \in 1..Len(lastOp.src.entries) :
               Restored(m_components, lastOp.src.entries[i]) )

\* C6: when Load() meets a tag that is not in the dispatch table, the
\* components written after it are still restored with the fields written.
C6_UnknownTagSkipped ==
    ( phase = "live" /\ lastOp.op = "Load" )
    => \A i, j \in 1..Len(lastOp.src.entries) :
          ( /\ i < j
            /\ lastOp.src.entries[i].tag = UnknownTag
            /\ lastOp.src.entries[j].tag \in AllTypes )
          => Restored(m_components, lastOp.src.entries[j])

\* C7: Update() of an inactive object calls the Update hook of none of its
\* components and leaves the collection as it is.
C7_InactiveNoUpdate ==
    [][ ( lastOp'.op = "Update" /\ ~m_isActive )
        => ( /\ Count(lastOp'.log, "Update") = 0
             /\ m_components' = m_components ) ]_vars

\* Update() has returned on an inactive object that owns two components
C7_Witness ==
    /\ phase = "live"
    /\ lastOp.op = "Update"
    /\ ~m_isActive
    /\ Len(m_components) >= 2

\* C8: MakeDirty() is called exactly once by an AddComponent that creates a
\* component and by a RemoveComponent that removes one, and not at all by
\* AddComponent of a present type, RemoveComponent of an absent type,
\* GetComponent, HasComponent, Update or Save.
C8_DirtyOnce ==
    [][ LET n   == Count(lastOp'.log, "MakeDirty")
            had == HasComponent(Cur, lastOp'.T)
        IN  /\ lastOp'.op = "AddComponent" => n = ( IF had THEN 0 ELSE 1 )
            /\ lastOp'.op = "RemoveComponent" => n = ( IF had THEN 1 ELSE 0 )
            /\ lastOp'.op \in { "GetComponent", "HasComponent", "Update", "Save" }
                  => n = 0 ]_vars

\* AddComponent has created a component on an object that lost one before
C8_Witness ==
    /\ phase = "live"
    /\ lastOp.op = "AddComponent"
    /\ Count(lastOp.log, "MakeDirty") = 1
    /\ destroyed # {}

\* C9: every component is added after Initialize() has set the handles: no
\* component holds an unset handle, and no call has gone to an unset scene.
C9_HandlesSetFirst ==
    /\ \A i \in 1..Len(m_components) : \A h \in HandleNames :
          m_components[i].g_handles[h] # Indeterminate
    /\ \A i \in 1..Len(lastOp.log) :
          lastOp.log[i].e = "MakeDirty" => lastOp.log[i].arg # Indeterminate

\* C10: a live object always owns a Transform, and GetTransform() returns
\* that component, never a destroyed one.
C10_TransformAlways ==
    phase = "live"
    => ( /\ Matching(m_components, "Transform") # {}
         /\ GetTransform(Cur) = GetComponent(Cur, "Transform")
         /\ GetTransform(Cur) \notin destroyed )

\* the positions of the events named e about the component inst in a log
At(log, e, inst) == { k \in 1..Len(log) : log[k].e = e /\ log[k].inst = inst }

\* C11: every component of a live object has its owner back-reference equal
\* to the object and its transform back-reference equal to the Transform the
\* object currently owns, the constructor's Transform included.
C11_BackReferences ==
    phase = "live"
    => \A i \in 1..Len(m_components) :
          /\ m_components[i].g_gameObject = this
          /\ m_components[i].g_transform = GetComponent(Cur, "Transform")

\* C12: the destructor clears the back-references of every owned component
\* before it destroys that component, destroys each exactly once, and leaves
\* the collection empty and the identifier different from the one the object
\* had while alive.
C12_Destruction ==
    [][ lastOp'.op = "~GameObject"
        => ( /\ \A i \in 1..Len(m_components) :
                   LET a == m_components[i].inst
                   IN  /\ Cardinality(At(lastOp'.log, "delete", a)) = 1
                       /\ Cardinality(At(lastOp'.log, "clear", a)) = 1
                       /\ \A c \in At(lastOp'.log, "clear", a) :
                             \A d \in At(lastOp'.log, "delete", a) : c < d
                       /\ a \in destroyed'
             /\ Count(lastOp'.log, "delete") = Len(m_components)
             /\ m_components' = << >>
             /\ m_ID' # m_ID ) ]_vars

\* an object that owned two components has been destroyed
C12_Witness ==
    /\ phase = "dead"
    /\ lastOp.op = "~GameObject"
    /\ lastOp.sizeBefore >= 2
    /\ Count(lastOp.log, "clear") = lastOp.sizeBefore
    /\ m_components = << >>

\* C13: no two live objects of the process have the same identifier, after
\* any constructions, SetID calls and Load calls, two objects loading the
\* same saved stream included.
C13_UniqueIDs ==
    ( phase = "live" /\ peer.live ) => m_ID # peer.m_ID

\* C14: Deserialize accepts only the discriminants of the enumerators: an
\* integer that is none of them raises an error and is not stored as the
\* texture's type.
C14_TypeValidated ==
    ( tex.made /\ texOp.op = "Deserialize" )
    => ( /\ tex.m_type \in LegalTextureTypes
         /\ ( LoadInt(texOp.src, 7) \notin LegalTextureTypes
               => "LOG_ERROR" \in { texOp.log[i] : i \in 1..Len(texOp.log) } ) )

\* C16: GetComponent<T>() returns null and HasComponent<T>() false when no
\* owned component matches T; neither call changes the collection, the
\* flags or the identifier, or marks the scene dirty.
C16_NotFound ==
    [][ LET none == Matching(m_components, lastOp'.T) = {}
        IN  /\ ( lastOp'.op = "GetComponent" /\ none ) => lastOp'.ret = NullPtr
            /\ ( lastOp'.op = "HasComponent" /\ none ) => lastOp'.ret = 0
            /\ lastOp'.op \in { "GetComponent", "HasComponent" }
                  => ( /\ m_components' = m_components
                       /\ m_isActive' = m_isActive
                       /\ m_hierarchyVisibility' = m_hierarchyVisibility
                       /\ m_ID' = m_ID
                       /\ Count(lastOp'.log, "MakeDirty") = 0 ) ]_vars

\* GetComponent<T>() has returned null on an object that owns a component
C16_Witness ==
    /\ phase = "live"
    /\ lastOp.op = "GetComponent"
    /\ lastOp.ret = NullPtr
    /\ Len(m_components) >= 1
    /\ Matching(m_components, lastOp.T) = {}

\* C17: the stream Save() writes and the stream Save() writes on a newly
\* constructed object that has loaded the first stream are identical.
C17_DoubleRoundTrip ==
    ( phase = "live" /\ lastOp.op = "Load" /\ lastOp.fresh /\ lastOp.src.bySave )
    => Save(Cur) = stream

\* the tag of the component at address inst in the collection m
TagOf(m, inst) == m[CHOOSE i \in 1..Len(m) : m[i].inst = inst].key

\* C18: Update() of an active object calls the Update hook of every owned
\* component exactly once, in ascending order of the components' tags.
C18_UpdateOrder ==
    [][ ( lastOp'.op = "Update" /\ m_isActive )
        => ( /\ Len(lastOp'.log) = Len(m_components)
             /\ \A i \in 1..Len(m_components) :
                   Cardinality(At(lastOp'.log, "Update", m_components[i].inst)) = 1
             /\ \A j, k \in 1..Len(lastOp'.log) :
                   j < k => KeyLess(TagOf(m_components, lastOp'.log[j].inst),
                                    TagOf(m_components, lastOp'.log[k].inst)) ) ]_vars

\* Update() has returned on an active object that owns two components
C18_Witness ==
    /\ phase = "live"
    /\ lastOp.op = "Update"
    /\ m_isActive
    /\ Count(lastOp.log, "Update") >= 2

\* C19: Initialize() is called on a component once, in the call that creates
\* it: after the references are injected, before MakeDirty() and before the
\* component's Load(); no call runs it on a component that already exists.
C19_InitializeOnce ==
    [][ LET log == lastOp'.log
            old == { m_components[i].inst : i \in 1..Len(m_components) }
        IN  /\ \A k \in 1..Len(log) :
                  log[k].e = "Initialize"
                  => LET a == log[k].inst
                     IN  /\ a \notin old
                         /\ a \notin destroyed
                         /\ At(log, "Initialize", a) = { k }
                         /\ At(log, "new", a) = { k - 2 }
                         /\ At(log, "inject", a) = { k - 1 }
                         /\ k < Len(log) /\ log[k + 1].e = "MakeDirty"
                         /\ \A j \in At(log, "Load", a) : k < j
            /\ \A k \in 1..Len(log) :
                  log[k].e = "new" => At(log, "Initialize", log[k].inst) # {}
            /\ \A i \in 1..Len(m_components') : m_components'[i].inits = 1
            /\ ( lastOp'.op = "AddComponent" /\ HasComponent(Cur, lastOp'.T) )
                  => Count(log, "Initialize") = 0 ]_vars

\* Load() has created a component and loaded into one that existed
C19_Witness ==
    /\ phase = "live"
    /\ lastOp.op = "Load"
    /\ Count(lastOp.log, "Initialize") = 1
    /\ Count(lastOp.log, "Load") >= 2

\* whether the file LoadFromFile is asked for cannot be loaded: an engine
\* texture file that does not open, an image the importer fails on, or a
\* file of neither kind
LoadFails(rawFilePath) ==
    LET filePath == GetRelativeFilePath(rawFilePath)
    IN  IF IsEngineTextureFile(filePath) THEN ~IsOpen(disk, filePath)
        ELSE IF IsSupportedImageFile(filePath) THEN ~ImporterLoads(filePath)
        ELSE TRUE

\* C15: a LoadFromFile whose file cannot be loaded returns false and does not
\* leave the load state Completed.
C15_LoadFailureReported ==
    [][ ( rhiOp'.op = "LoadFromFile" /\ LoadFails(rhiOp'.path) )
        => ( /\ rhiOp'.ret = FALSE
             /\ rhi'.m_loadState # "Completed" ) ]_vars

\* the mip count and the mips of an engine texture file
FileMips(file) == ReadMips(file)

\* C20: after a load that gave the texture mip data, every file SaveToFile
\* writes holds a mip count above zero and those mips, also when an earlier
\* SaveToFile has cleared the bytes in memory.
C20_BitsNeverLost ==
    [][ ( rhiOp'.op = "SaveToFile" /\ rhiOp'.ret /\ rhiOp'.bits # << >> )
        => ( /\ FRead(disk'[rhiOp'.path], 1, "uint").n > 0
             /\ FileMips(disk'[rhiOp'.path]) = rhiOp'.bits ) ]_vars

\* LoadFromFile has read the engine texture file at its path
ReadEngineFile ==
    /\ rhiOp.op = "LoadFromFile"
    /\ IsEngineTextureFile(GetRelativeFilePath(rhiOp.path))
    /\ IsOpen(disk, GetRelativeFilePath(rhiOp.path))

\* C21: the readers read the fields the writers write, in the same order:
\* after Deserialize of a file, every persisted field of the RHI_Texture and
\* of the Texture has the value the file holds, so that writing the object
\* again gives the fields of the file.
C21_Symmetric ==
    /\ ReadEngineFile
          => RhiFields([ rhi EXCEPT !.m_data = rhiOp.bits ])
               = disk[GetRelativeFilePath(rhiOp.path)]
    /\ ( tex.made /\ texOp.op = "Deserialize" )
          => TextureSerialize(tex) = texOp.src

\* both classes have read back a file their own Serialize wrote, holding
\* values their constructors do not set
C21_Witness ==
    /\ ReadEngineFile
    /\ rhiOp.bits # << >>
    /\ rhi.m_width # rhi.m_height
    /\ tex.made
    /\ texOp.op = "Deserialize"
    /\ tex.m_type # Discriminant("Albedo")
    /\ tex.m_filePathTexture # NotAssigned

\* C22: LoadFromFile first clears the mip data and sets the load state to
\* Started; on return the state is Failed exactly when the call returns
\* false and Completed exactly when it returns true; after a completed load
\* of an engine texture file whose shader resource was created the mip data
\* is empty, after a completed load of an image file the mip data the
\* importer gave is still in memory.
C22_LoadStates ==
    [][ rhiOp'.op = "LoadFromFile"
        => LET filePath == GetRelativeFilePath(rhiOp'.path)
           IN  /\ Len(rhiOp'.log) >= 2
               /\ SubSeq(rhiOp'.log, 1, 2) = << "clear", "Started" >>
               /\ rhi'.m_loadState # "Started"
               /\ rhi'.m_loadState = "Failed" <=> rhiOp'.ret = FALSE
               /\ rhi'.m_loadState = "Completed" <=> rhiOp'.ret = TRUE
               /\ ( rhiOp'.ret /\ IsEngineTextureFile(filePath) /\ rhiOp'.created )
                     => rhi'.m_data = << >>
               /\ ( rhiOp'.ret /\ ~IsEngineTextureFile(filePath) )
                     => ( /\ rhi'.m_data = rhiOp'.bits
                          /\ ImporterLoads(filePath)
                                => rhi'.m_data = ImageOf(filePath).data ) ]_vars

\* an engine texture file that holds mips has been loaded, its shader
\* resource created and its bits freed
C22_Witness ==
    /\ ReadEngineFile
    /\ rhiOp.ret
    /\ rhiOp.created
    /\ rhiOp.bits # << >>
    /\ rhi.m_data = << >>
    /\ rhi.m_loadState = "Completed"

====
